---- MODULE Spec2Model ----
(***************************************************************************)
(* Model of nanotube_finder_SEs_only.py: the integer coordinate-descent    *)
(* search custom_minimize and the cluster_image pipeline                   *)
(* (filter_lone_pixels -> argwhere -> find_clusters -> chi_square).        *)
(***************************************************************************)
EXTENDS Integers, Naturals, Sequences, FiniteSets, TLC

VARIABLES
    \* ---- custom_minimize (lines 43-70) ----
    fun,                \* the objective: a table from parameter vectors to values
    guess,              \* the initial parameter vector
    bounds,             \* bounds[d] = <<lo, hi>>, inclusive
    max_fun_calls,      \* <<>> for None, <<k>> when a budget k is supplied
    best_par, best_chi_square, function_calls, improved, stop,
    tested_parameters,  \* the list of candidate vectors already evaluated
    dim,                \* loop variable of "for dim in range(np.size(guess))"
    steps,              \* the list [best_par[dim] - 1, best_par[dim] + 1] of line 54
    stepIdx,            \* position in that list
    calls,              \* every vector handed to fun, in call order
    pc,                 \* position in custom_minimize
    \* ---- cluster_image (lines 81-147) ----
    image,              \* self.image: rows x cols grid of labels in {0, 2}
    filt_image,         \* self.filt_image
    SE_points,          \* self.SE_points: row-major list of <<row, col>>
    clusters_SE,        \* cluster id of each point of SE_points
    labels_float,       \* TRUE when clusters_SE came from np.ones (float64 ids)
    clustering_failed,  \* TRUE when the except branch of find_clusters ran
    SE_clust_dim,       \* <<lengths, widths, sizes>>; a length is kept squared
    good_SE_clusters,   \* accepted cluster ids, ascending
    SE_var_width,
    chi_square,
    error,              \* the exception that ended the constructor, or "none"
    ipc                 \* position in cluster_image.__init__

optVars == <<fun, guess, bounds, max_fun_calls, best_par, best_chi_square,
             function_calls, improved, stop, tested_parameters, dim, steps,
             stepIdx, calls, pc>>
imgVars == <<image, filt_image, SE_points, clusters_SE, labels_float,
             clustering_failed, SE_clust_dim, good_SE_clusters, SE_var_width,
             chi_square, error, ipc>>
vars == <<optVars, imgVars>>

(***************************************************************************)
(* Bounds of the model.                                                    *)
(***************************************************************************)
MaxCoord == 3       \* one-dimensional runs search the lattice 0..MaxCoord
MaxBudget == 2      \* the evaluation budget, when one is supplied
Rows == 2           \* small label images have Rows x Cols pixels
Cols == 4
gmin == 80
gmax == 140
guess0 == 130

SE == 2             \* the label of a foreground pixel (lines 75, 88)
DistanceThreshold == 2
MinSize == 120
Penalty == 64

None == <<>>
Values == 0 .. (MaxCoord - 1)       \* objective values of one-dimensional runs
XCoords == 0 .. (MaxCoord - 1)      \* two-dimensional runs: first coordinate
YCoords == 0 .. 1                   \*                       second coordinate
Values2 == 0 .. 1                   \* objective values of two-dimensional runs

Lattice1 == [1..1 -> 0..MaxCoord]
Lattice2 == {<<x, y>> : x \in XCoords, y \in YCoords}
Bounds1 == {<<<<lo, hi>>>> : lo \in {0, 1}, hi \in {MaxCoord - 1, MaxCoord}}
Bounds2 == {<<<<lo, MaxCoord - 1>>, by>> : lo \in {0, 1}, by \in {<<0, 1>>, <<0, 0>>}}
Budgets == {None, <<MaxBudget>>}

\* the objective of the spec's scenario, f(p) = (p - 113)^2, on gmin..gmax
ScenarioFun == [p \in [1..1 -> gmin..gmax] |-> (p[1] - 113) * (p[1] - 113)]

(***************************************************************************)
(* custom_minimize                                                         *)
(***************************************************************************)
NDim == Len(guess)                                  \* np.size(guess)

\* lines 45, 60: fun(par, *args). The objective is a total function of the
\* parameter vector; the table fun gives it on the lattice and it takes the
\* largest table value everywhere else
Objective(par) ==
    IF par \in DOMAIN fun THEN fun[par]
    ELSE CHOOSE v \in {fun[p] : p \in DOMAIN fun} : \A p \in DOMAIN fun : fun[p] <= v

\* mutant of StepList: only the backward step is tried
StepListBackOnly(v) == <<v - 1>>

\* line 54: the two candidate values of one dimension, backward step first
StepList(v) == <<v - 1, v + 1>>

\* mutants of InBounds: the upper bound is not tested; both tests are strict
InBoundsLowerOnly(step, d) == step >= bounds[d][1]
InBoundsStrict(step, d) == step > bounds[d][1] /\ step < bounds[d][2]

\* line 55: the proposed step is inside the given bounds
InBounds(step, d) == step >= bounds[d][1] /\ step <= bounds[d][2]

\* line 58: test_par not in tested_parameters (list membership by equality)
NotTested(test_par) == \A i \in 1..Len(tested_parameters) : tested_parameters[i] # test_par

\* line 62: a strictly better value replaces the running best
Improves(test_chi_square) == test_chi_square < best_chi_square

\* line 66: the budget is set and has been reached
BudgetReached == max_fun_calls # None /\ function_calls >= max_fun_calls[1]

\* lines 56-57: test_par = list(best_par); test_par[dim] = step
TestPar == [best_par EXCEPT ![dim] = steps[stepIdx]]

IdleImg ==
    /\ image = <<>> /\ filt_image = <<>> /\ SE_points = <<>> /\ clusters_SE = <<>>
    /\ labels_float = FALSE /\ clustering_failed = FALSE
    /\ SE_clust_dim = <<<<>>, <<>>, <<>>>> /\ good_SE_clusters = <<>>
    /\ SE_var_width = <<>> /\ chi_square = <<>> /\ error = "none" /\ ipc = "idle"

\* the state at the call of custom_minimize (line 43; the call of line 172)
InitOpt ==
    /\ \/ /\ fun \in [Lattice1 -> Values]
          /\ guess \in Lattice1
          /\ bounds \in Bounds1
          /\ max_fun_calls \in Budgets
       \/ /\ fun \in [Lattice2 -> Values2]
          /\ guess \in Lattice2
          /\ bounds \in Bounds2
          /\ max_fun_calls \in Budgets
       \/ /\ fun = ScenarioFun
          /\ guess = <<guess0>>
          /\ bounds = <<<<gmin, gmax>>>>
          /\ max_fun_calls = None
    /\ best_par = <<>> /\ best_chi_square = 0 /\ function_calls = 0
    /\ improved = FALSE /\ stop = FALSE /\ tested_parameters = <<>>
    /\ dim = 1 /\ steps = <<>> /\ stepIdx = 1 /\ calls = <<>>
    /\ pc = "start"
    /\ IdleImg

\* lines 44-49
Start ==
    /\ pc = "start"
    /\ best_par' = guess
    /\ best_chi_square' = Objective(guess)
    /\ calls' = Append(calls, guess)
    /\ function_calls' = 1
    /\ improved' = TRUE
    /\ stop' = FALSE
    /\ tested_parameters' = <<>>
    /\ pc' = "while"
    /\ UNCHANGED <<imgVars, fun, guess, bounds, max_fun_calls, dim, steps, stepIdx>>

\* lines 51-52: the loop test holds, a new pass begins
WhileEnter ==
    /\ pc = "while"
    /\ improved /\ ~stop
    /\ improved' = FALSE
    /\ dim' = 1
    /\ pc' = "for_dim"
    /\ UNCHANGED <<imgVars, fun, guess, bounds, max_fun_calls, best_par, best_chi_square,
                   function_calls, stop, tested_parameters, steps, stepIdx, calls>>

\* lines 51, 70: the loop test fails, best_par is returned
WhileExit ==
    /\ pc = "while"
    /\ ~(improved /\ ~stop)
    /\ pc' = "done"
    /\ UNCHANGED <<imgVars, fun, guess, bounds, max_fun_calls, best_par, best_chi_square,
                   function_calls, improved, stop, tested_parameters, dim, steps,
                   stepIdx, calls>>

\* lines 53-54: the next dimension; its step list is built from the current best
ForDimNext ==
    /\ pc = "for_dim"
    /\ dim <= NDim
    /\ steps' = StepList(best_par[dim])
    /\ stepIdx' = 1
    /\ pc' = "step"
    /\ UNCHANGED <<imgVars, fun, guess, bounds, max_fun_calls, best_par, best_chi_square,
                   function_calls, improved, stop, tested_parameters, dim, calls>>

\* line 53: the dimensions are exhausted, back to the loop test
ForDimEnd ==
    /\ pc = "for_dim"
    /\ dim > NDim
    /\ pc' = "while"
    /\ UNCHANGED <<imgVars, fun, guess, bounds, max_fun_calls, best_par, best_chi_square,
                   function_calls, improved, stop, tested_parameters, dim, steps,
                   stepIdx, calls>>

\* the inner for loop moves to its next step, or falls through to line 66
AdvanceStep ==
    /\ stepIdx' = stepIdx + 1
    /\ pc' = IF stepIdx + 1 > Len(steps) THEN "budget" ELSE "step"

\* line 55 fails: the candidate is outside the bounds
StepSkipBounds ==
    /\ pc = "step"
    /\ ~InBounds(steps[stepIdx], dim)
    /\ AdvanceStep
    /\ UNCHANGED <<imgVars, fun, guess, bounds, max_fun_calls, best_par, best_chi_square,
                   function_calls, improved, stop, tested_parameters, dim, steps,
                   calls>>

\* line 58 fails: the candidate vector is in tested_parameters
StepSkipTested ==
    /\ pc = "step"
    /\ InBounds(steps[stepIdx], dim)
    /\ ~NotTested(TestPar)
    /\ AdvanceStep
    /\ UNCHANGED <<imgVars, fun, guess, bounds, max_fun_calls, best_par, best_chi_square,
                   function_calls, improved, stop, tested_parameters, dim, steps,
                   calls>>

\* lines 59-65: the candidate is evaluated
StepEvaluate ==
    /\ pc = "step"
    /\ InBounds(steps[stepIdx], dim)
    /\ NotTested(TestPar)
    /\ tested_parameters' = Append(tested_parameters, TestPar)
    /\ calls' = Append(calls, TestPar)
    /\ function_calls' = function_calls + 1
    /\ IF Improves(Objective(TestPar))
          THEN /\ best_chi_square' = Objective(TestPar)
               /\ best_par' = TestPar
               /\ improved' = TRUE
          ELSE UNCHANGED <<best_chi_square, best_par, improved>>
    /\ AdvanceStep
    /\ UNCHANGED <<imgVars, fun, guess, bounds, max_fun_calls, stop, dim, steps>>

\* lines 66-68: the budget is reached, the for loop is left
BudgetStop ==
    /\ pc = "budget"
    /\ BudgetReached
    /\ stop' = TRUE
    /\ pc' = "while"
    /\ UNCHANGED <<imgVars, fun, guess, bounds, max_fun_calls, best_par, best_chi_square,
                   function_calls, improved, tested_parameters, dim, steps,
                   stepIdx, calls>>

\* line 66 fails: on to the next dimension
BudgetContinue ==
    /\ pc = "budget"
    /\ ~BudgetReached
    /\ dim' = dim + 1
    /\ pc' = "for_dim"
    /\ UNCHANGED <<imgVars, fun, guess, bounds, max_fun_calls, best_par, best_chi_square,
                   function_calls, improved, stop, tested_parameters, steps,
                   stepIdx, calls>>

NextOpt ==
    \/ Start
    \/ WhileEnter
    \/ WhileExit
    \/ ForDimNext
    \/ ForDimEnd
    \/ StepSkipBounds
    \/ StepSkipTested
    \/ StepEvaluate
    \/ BudgetStop
    \/ BudgetContinue

Spec == InitOpt /\ [][NextOpt]_vars

\* custom_minimize is one sequential call: it keeps running until it returns
FairSpec == Spec /\ WF_vars(NextOpt)

(***************************************************************************)
(* cluster_image                                                           *)
(***************************************************************************)
\* A label image is a function row -> (column -> label), both from 0, as a
\* numpy array is indexed.
NRows(img) == Cardinality(DOMAIN img)
NCols(img) == Cardinality(DOMAIN img[0])

Block(nr, nc, holes) ==
    [r \in 0..(nr - 1) |-> [c \in 0..(nc - 1) |-> IF <<r, c>> \in holes THEN 0 ELSE SE]]

\* the side of the smallest square block with more than MinSize pixels
FullSide == CHOOSE n \in 1..MinSize : n * n > MinSize /\ (n - 1) * (n - 1) <= MinSize

SmallImages == [0..(Rows - 1) -> [0..(Cols - 1) -> {0, SE}]]

\* images with clusters on both sides of the size cutoff of line 122
LargeImages ==
    { Block(FullSide, FullSide, {}),
      Block(FullSide, FullSide, {<<0, 0>>}),
      Block(FullSide, FullSide, {<<r, c>> : r \in 0..(FullSide - 1), c \in 0..(FullSide - 1)}),
      Block(1, MinSize + 1, {}),
      Block(FullSide, FullSide + 3, {<<r, FullSide>> : r \in 0..(FullSide - 1)}) }

\* mutants of KeepPixel: the pixel alone passes; two neighbours are needed
KeepPixelAlone(x_SE) == x_SE > 0
KeepPixelTwoNeighbours(x_SE) == x_SE > 2

\* line 90: x_SE > 1, the pixel and at least one neighbour are foreground
KeepPixel(x_SE) == x_SE > 1

\* line 89: signal.convolve2d(unfiltered_SE_image, np.ones((3,3)), mode='same')
\* at one pixel: the number of foreground pixels of its 3x3 neighbourhood,
\* pixels outside the image counting as 0
Convolve3x3(img, r, c) ==
    Cardinality({q \in ((r - 1)..(r + 1)) \X ((c - 1)..(c + 1)) :
                    /\ q[1] \in DOMAIN img
                    /\ q[2] \in DOMAIN img[0]
                    /\ img[q[1]][q[2]] = SE})

\* lines 88-94
filter_lone_pixels(img) ==
    [r \in DOMAIN img |-> [c \in DOMAIN img[r] |->
        IF img[r][c] = SE /\ KeepPixel(Convolve3x3(img, r, c)) THEN SE ELSE 0]]

\* line 134: np.argwhere(self.filt_image == 2), <<row, column>> in row-major order
ArgWhere(img) ==
    LET nc == NCols(img)
        all == [k \in 1..(NRows(img) * nc) |-> <<(k - 1) \div nc, (k - 1) % nc>>]
    IN SelectSeq(all, LAMBDA q : img[q[1]][q[2]] = SE)

Dist2(a, b) == (a[1] - b[1]) * (a[1] - b[1]) + (a[2] - b[2]) * (a[2] - b[2])

SetMin(S) == CHOOSE x \in S : \A y \in S : x <= y
SetMax(S) == CHOOSE x \in S : \A y \in S : x >= y

\* mutant of Linkable: a pair at exactly the threshold is merged too
LinkableInclusive(d2) == d2 <= DistanceThreshold * DistanceThreshold

\* line 106: distance_threshold=2. AgglomerativeClustering does not merge at
\* or above the threshold (the comment of line 104: a pixel joins a cluster
\* only if it touches it, diagonals included); d2 is a squared distance
Linkable(d2) == d2 < DistanceThreshold * DistanceThreshold

\* line 106: linkage = 'single', n_clusters = None. Starting from one cluster
\* per point, the two clusters holding the closest pair of points are merged
\* as long as that pair is linkable. cl is the set of clusters, each a set of
\* positions in pts; cand are the linkable pairs that lie in two clusters.
RECURSIVE Agglomerate(_, _, _)
Agglomerate(cl, pts, cand) ==
    IF cand = {} THEN cl
    ELSE LET dmin == SetMin({Dist2(pts[l[1]], pts[l[2]]) : l \in cand})
             pr == CHOOSE l \in cand : Dist2(pts[l[1]], pts[l[2]]) = dmin
             a == CHOOSE c \in cl : pr[1] \in c
             b == CHOOSE c \in cl : pr[2] \in c
             ab == a \cup b
         IN Agglomerate((cl \ {a, b}) \cup {ab}, pts,
                        {l \in cand : ~(l[1] \in ab /\ l[2] \in ab)})

SingleLinkage(pts) ==
    LET n == Len(pts)
        links == {l \in (1..n) \X (1..n) :
                     l[1] < l[2] /\ Linkable(Dist2(pts[l[1]], pts[l[2]]))}
    IN Agglomerate({{k} : k \in 1..n}, pts, links)

\* line 107: fit_predict numbers the clusters 0..k-1; the order of the
\* numbers is the library's, so every numbering is allowed
Labelings(pts) ==
    LET cl == SingleLinkage(pts)
        k == Cardinality(cl)
    IN {[i \in 1..Len(pts) |-> f[CHOOSE c \in cl : i \in c]] :
            f \in {g \in [cl -> 0..(k - 1)] : \A a, b \in cl : a # b => g[a] # g[b]}}

\* lines 111-114
NumClust(clusters) ==
    IF Len(clusters) = 0 THEN 0
    ELSE SetMax({clusters[i] : i \in 1..Len(clusters)}) + 1

\* np.where(clusters_SE == num_clust)
Members(clusters, id) == {i \in 1..Len(clusters) : clusters[i] = id}

\* line 116
SizeOf(clusters, id) == Cardinality(Members(clusters, id))

\* lines 21, 118: find_length, kept squared (the length is its square root)
Length2(pts, clusters, id) ==
    LET xs == {pts[i][2] : i \in Members(clusters, id)}
        ys == {pts[i][1] : i \in Members(clusters, id)}
    IN (SetMax(xs) - SetMin(xs)) * (SetMax(xs) - SetMin(xs))
         + (SetMax(ys) - SetMin(ys)) * (SetMax(ys) - SetMin(ys))

\* line 120: SE_sizes / SE_lengths; the width size / sqrt(len2) is kept as the
\* pair <<size, len2>> (numpy divides by 0.0 without raising: the width is inf)
Width(size, len2) == <<size, len2>>

\* lines 38-41, 122: outlier_probability(0.9, 8, 1, 30, 5, w) < 0.9.
\* bad/(good+bad) < 0.9 iff bad < 9*good iff
\*   0.02*exp(-(w-30)^2/50) < 8.1*exp(-(w-8)^2/2) iff
\*   25*(w-8)^2 - (w-30)^2 < 50*ln(405) = 300.19435...,
\* i.e. w lies strictly between the roots 1.29411.. and 12.87255.. of
\*   24*w^2 - 340*w + 399.80565 = 0; with w^2 = size^2/len2 and the squared
\* roots 1.6747.. and 165.7026.. this is the test below, in integers to the
\* digits shown. An infinite or huge width makes both terms 0 and the
\* probability nan, and nan < 0.9 is false, as the test is.
OutlierBelowCutoff(w) ==
    /\ w[2] > 0
    /\ 1000 * w[1] * w[1] > 1675 * w[2]
    /\ 100 * w[1] * w[1] < 16570 * w[2]

\* line 122: large enough to be a nanotube and not an outlier
GoodCluster(size, w) == size > MinSize /\ OutlierBelowCutoff(w)

\* np.where(...)[0]: the accepted ids in ascending order
RECURSIVE GoodList(_, _, _)
GoodList(pts, clusters, id) ==
    IF id >= NumClust(clusters) THEN <<>>
    ELSE LET size == SizeOf(clusters, id)
             rest == GoodList(pts, clusters, id + 1)
         IN IF GoodCluster(size, Width(size, Length2(pts, clusters, id)))
               THEN <<id>> \o rest ELSE rest

\* mutant of NoWidths: the test reads the sizes, which are not restricted to
\* the accepted clusters
NoWidthsBySizes(dims) == Len(dims[3]) = 0

\* line 138: np.size(self.SE_clust_dim[1]) == 0
NoWidths(dims) == Len(dims[2]) = 0

\* line 142: np.var(widths) == 0, the accepted widths are all equal
ZeroVariance(widths) ==
    \A i, j \in 1..Len(widths) :
        widths[i][1] * widths[i][1] * widths[j][2] = widths[j][1] * widths[j][1] * widths[i][2]

IdleOpt ==
    /\ fun = <<>> /\ guess = <<>> /\ bounds = <<>> /\ max_fun_calls = None
    /\ best_par = <<>> /\ best_chi_square = 0 /\ function_calls = 0
    /\ improved = FALSE /\ stop = FALSE /\ tested_parameters = <<>>
    /\ dim = 1 /\ steps = <<>> /\ stepIdx = 1 /\ calls = <<>>
    /\ pc = "idle"

\* line 131: self.image = array
InitImg ==
    /\ image \in SmallImages \cup LargeImages
    /\ filt_image = <<>> /\ SE_points = <<>> /\ clusters_SE = <<>>
    /\ labels_float = FALSE /\ clustering_failed = FALSE
    /\ SE_clust_dim = <<<<>>, <<>>, <<>>>> /\ good_SE_clusters = <<>>
    /\ SE_var_width = <<>> /\ chi_square = <<>> /\ error = "none"
    /\ ipc = "start"
    /\ IdleOpt

\* line 132
FilterStep ==
    /\ ipc = "start"
    /\ filt_image' = filter_lone_pixels(image)
    /\ ipc' = "filtered"
    /\ UNCHANGED <<optVars, image, SE_points, clusters_SE, labels_float,
                   clustering_failed, SE_clust_dim, good_SE_clusters, SE_var_width,
                   chi_square, error>>

\* line 134
ArgWhereStep ==
    /\ ipc = "filtered"
    /\ SE_points' = ArgWhere(filt_image)
    /\ ipc' = "points"
    /\ UNCHANGED <<optVars, image, filt_image, clusters_SE, labels_float,
                   clustering_failed, SE_clust_dim, good_SE_clusters, SE_var_width,
                   chi_square, error>>

\* lines 116-128, 136 for integer cluster ids
FinishClusters(clusters) ==
    LET num == NumClust(clusters)
        good == GoodList(SE_points, clusters, 0)
        sizes == [k \in 1..num |-> SizeOf(clusters, k - 1)]
        lengths == [k \in 1..Len(good) |-> Length2(SE_points, clusters, good[k])]
        widths == [k \in 1..Len(good) |->
                      Width(SizeOf(clusters, good[k]), Length2(SE_points, clusters, good[k]))]
    IN /\ SE_clust_dim' = <<lengths, widths, sizes>>
       /\ good_SE_clusters' = good
       /\ ipc' = "clustered"

\* lines 105-107, 111-128: the clustering call returns
FindClustersOk ==
    /\ ipc = "points"
    /\ Len(SE_points) >= 2
    /\ \E lab \in Labelings(SE_points) :
          /\ clusters_SE' = lab
          /\ FinishClusters(lab)
    /\ UNCHANGED <<optVars, image, filt_image, SE_points, labels_float,
                   clustering_failed, SE_var_width, chi_square, error>>

\* lines 108-128 with no point: the call raises (fewer than 2 samples),
\* clusters_SE = np.ones(0), num_SE_clust = 0, every list is empty
FindClustersFallbackEmpty ==
    /\ ipc = "points"
    /\ Len(SE_points) = 0
    /\ clusters_SE' = <<>>
    /\ labels_float' = TRUE
    /\ clustering_failed' = TRUE
    /\ FinishClusters(<<>>)
    /\ UNCHANGED <<optVars, image, filt_image, SE_points, SE_var_width,
                   chi_square, error>>

\* lines 108-116 with points: the call raises (one sample, or any failure of
\* the library, which the bare except catches), clusters_SE = np.ones(n) is
\* float64, num_SE_clust = max + 1 = 2.0 and range(num_SE_clust) raises
\* TypeError, which leaves find_clusters and the constructor
FindClustersFallbackRaise ==
    /\ ipc = "points"
    /\ Len(SE_points) >= 1
    /\ clusters_SE' = [i \in 1..Len(SE_points) |-> 1]
    /\ labels_float' = TRUE
    /\ clustering_failed' = TRUE
    /\ error' = "TypeError"
    /\ ipc' = "raised"
    /\ UNCHANGED <<optVars, image, filt_image, SE_points, SE_clust_dim,
                   good_SE_clusters, SE_var_width, chi_square>>

\* lines 138-140
ChiPenalty ==
    /\ ipc = "clustered"
    /\ NoWidths(SE_clust_dim)
    /\ SE_var_width' = 1
    /\ chi_square' = [kind |-> "penalty", value |-> Penalty]
    /\ ipc' = "done"
    /\ UNCHANGED <<optVars, image, filt_image, SE_points, clusters_SE, labels_float,
                   clustering_failed, SE_clust_dim, good_SE_clusters, error>>

\* lines 141-147: the score sum((w - 8)^2 / var) / len(good) is kept as the
\* widths and the count it is computed from
ChiScore ==
    /\ ipc = "clustered"
    /\ ~NoWidths(SE_clust_dim)
    /\ SE_var_width' = IF ZeroVariance(SE_clust_dim[2]) THEN 1
                       ELSE [kind |-> "var", of |-> SE_clust_dim[2]]
    /\ chi_square' = [kind |-> "width_score", widths |-> SE_clust_dim[2],
                      count |-> Len(good_SE_clusters)]
    /\ ipc' = "done"
    /\ UNCHANGED <<optVars, image, filt_image, SE_points, clusters_SE, labels_float,
                   clustering_failed, SE_clust_dim, good_SE_clusters, error>>

NextImg ==
    \/ FilterStep
    \/ ArgWhereStep
    \/ FindClustersOk
    \/ FindClustersFallbackEmpty
    \/ FindClustersFallbackRaise
    \/ ChiPenalty
    \/ ChiScore

SpecImage == InitImg /\ [][NextImg]_vars

(***************************************************************************)
(* Properties of custom_minimize                                           *)
(***************************************************************************)
\* a vector lies within the inclusive bounds in every component
VecWithin(v) == \A d \in 1..Len(v) : bounds[d][1] <= v[d] /\ v[d] <= bounds[d][2]
GuessWithin == VecWithin(guess)
NoBudget == max_fun_calls = None

\* C1: no full parameter vector is passed to the objective more than once
\* during one run, the evaluation of the initial guess included.
C1_NoVectorEvaluatedTwice ==
    \A i, j \in 1..Len(calls) : i # j => calls[i] # calls[j]

\* C2: when max_fun_calls is supplied, the number of calls to the objective
\* (the evaluation of the initial guess included) never exceeds it.
C2_CallsWithinBudget ==
    max_fun_calls # None => Len(calls) <= max_fun_calls[1]

\* C3: if the initial guess lies within the bounds, every vector passed to
\* the objective, every memoised vector, the running best vector and the
\* returned vector lie within the bounds (an out-of-bounds step is never
\* evaluated).
C3_StaysWithinBounds ==
    GuessWithin =>
        /\ \A i \in 1..Len(calls) : VecWithin(calls[i])
        /\ \A i \in 1..Len(tested_parameters) : VecWithin(tested_parameters[i])
        /\ Len(calls) = function_calls
        /\ pc # "start" => VecWithin(best_par)

\* C3 witness: a run from a guess within the bounds returned a vector that
\* sits on a bound other than the guess, so its last pass skipped the step
\* beyond that bound.
C3_Witness ==
    /\ GuessWithin /\ pc = "done" /\ best_par # guess
    /\ \E d \in 1..NDim : best_par[d] = bounds[d][1] \/ best_par[d] = bounds[d][2]

\* the objective is strictly decreasing below m and strictly increasing
\* above m on the bounds interval of a one-dimensional run
Unimodal(m) ==
    \A p \in bounds[1][1] .. (bounds[1][2] - 1) :
        /\ p + 1 <= m => Objective(<<p>>) > Objective(<<p + 1>>)
        /\ p >= m => Objective(<<p>>) < Objective(<<p + 1>>)

\* C4: a one-dimensional run without budget, from a guess within the bounds,
\* on an objective that is strictly decreasing below m and strictly
\* increasing above m (lo <= m <= hi), returns [m].
C4_UnimodalReturnsMinimum ==
    (pc = "done" /\ NDim = 1 /\ NoBudget /\ GuessWithin) =>
        \A m \in bounds[1][1] .. bounds[1][2] : Unimodal(m) => best_par = <<m>>

\* C4 witness: the scenario f(p) = (p - 113)^2, guess [130], bounds
\* [(80, 140)] has returned [113].
C4_Witness ==
    /\ pc = "done" /\ fun = ScenarioFun /\ guess = <<guess0>>
    /\ Unimodal(113) /\ best_par = <<113>>

\* the in-bounds vectors that differ from v by exactly 1 in exactly one
\* coordinate
Neighbours(v) ==
    {w \in {[v EXCEPT ![d] = v[d] + e] : d \in 1..Len(v), e \in {-1, 1}} : VecWithin(w)}

BestIsLocalOptimum ==
    /\ \A i \in 1..Len(calls) : Objective(calls[i]) >= Objective(best_par)
    /\ \A w \in Neighbours(best_par) : Objective(w) >= Objective(best_par)

\* C9: without budget every run terminates, and the returned vector is the
\* best vector evaluated and a local optimum among its in-bounds neighbours.
C9_TerminatesAtLocalOptimum ==
    /\ NoBudget ~> (pc = "done")
    /\ []((NoBudget /\ pc = "done") => BestIsLocalOptimum)

\* C9 witness: a two-dimensional run without budget has returned a vector
\* other than its guess that has in-bounds neighbours.
C9_Witness ==
    /\ NoBudget /\ pc = "done" /\ NDim = 2 /\ best_par # guess
    /\ Cardinality(Neighbours(best_par)) >= 2
    /\ BestIsLocalOptimum

(***************************************************************************)
(* Properties of cluster_image                                             *)
(***************************************************************************)
\* find_clusters has returned and its clustering call did not fail
ClusteredOk == ipc \in {"clustered", "done"} /\ ~clustering_failed

NPoints == Len(SE_points)
ClusterIds == {clusters_SE[i] : i \in 1..Len(clusters_SE)}
PointsOf(id) == {i \in 1..Len(clusters_SE) : clusters_SE[i] = id}

\* two distinct points touch: they are 8-neighbours (distance 1 or sqrt 2)
TouchingPairs ==
    {l \in (1..NPoints) \X (1..NPoints) :
        /\ l[1] # l[2]
        /\ SE_points[l[1]][1] - SE_points[l[2]][1] \in -1..1
        /\ SE_points[l[1]][2] - SE_points[l[2]][2] \in -1..1}

\* two distinct points are at Euclidean distance <= 2
WithinTwoPairs ==
    {l \in (1..NPoints) \X (1..NPoints) :
        l[1] # l[2] /\ Dist2(SE_points[l[1]], SE_points[l[2]]) <= 4}

\* the points joined to a point of S by a chain of pairs of rel
RECURSIVE ChainClosure(_, _)
ChainClosure(S, rel) ==
    LET T == S \cup {l[2] : l \in {m \in rel : m[1] \in S}}
    IN IF T = S THEN S ELSE ChainClosure(T, rel)

\* the classes of "joined by a chain of pairs of rel" among the points of P
RECURSIVE ChainClasses(_, _)
ChainClasses(P, rel) ==
    IF P = {} THEN {}
    ELSE LET c == ChainClosure({SetMin(P)}, rel)
         IN {c} \cup ChainClasses(P \ c, rel)

\* two points carry the same cluster id iff a chain of pairs of rel joins
\* them, and every reported size is the number of points that carry the id
ClustersAreChainsOf(rel) ==
    /\ Len(clusters_SE) = NPoints
    /\ {PointsOf(id) : id \in ClusterIds} = ChainClasses(1..NPoints, rel)
    /\ ClusterIds = 0..(Len(SE_clust_dim[3]) - 1)
    /\ \A id \in ClusterIds : SE_clust_dim[3][id + 1] = Cardinality(PointsOf(id))

\* C5 as stated: two filtered points share a cluster id iff a chain of pairs
\* at Euclidean distance <= 2 joins them (a pair at distance exactly 2 is
\* directly linkable), and each size is the number of points of the id.
C5_ChainsWithinTwo == ClusteredOk => ClustersAreChainsOf(WithinTwoPairs)

\* C5 amended: two filtered points share a cluster id iff a chain of pairs at
\* Euclidean distance < 2, that is of touching pixels (8-neighbours), joins
\* them; a pair at distance exactly 2 is not directly linkable; each size is
\* the number of points of the id.
C5_ChainsOfTouchingPixels == ClusteredOk => ClustersAreChainsOf(TouchingPairs)

\* C5 witness: two filtered points at distance exactly 2 lie in different
\* clusters.
C5_Witness ==
    /\ ClusteredOk
    /\ \E l \in WithinTwoPairs :
          /\ Dist2(SE_points[l[1]], SE_points[l[2]]) = 4
          /\ clusters_SE[l[1]] # clusters_SE[l[2]]

\* a foreground pixel of img has a foreground pixel among its 8 neighbours
HasNeighbour(img, r, c) ==
    \E q \in ((r - 1)..(r + 1)) \X ((c - 1)..(c + 1)) :
        /\ q # <<r, c>>
        /\ q[1] \in DOMAIN img /\ q[2] \in DOMAIN img[0]
        /\ img[q[1]][q[2]] = SE

\* C6: filter_lone_pixels is idempotent: filtering its own output returns
\* the output unchanged, every surviving foreground pixel having a surviving
\* foreground pixel among its 8 neighbours.
C6_FilterIdempotent ==
    ipc # "start" =>
        /\ filter_lone_pixels(filt_image) = filt_image
        /\ \A r \in DOMAIN filt_image : \A c \in DOMAIN filt_image[r] :
              filt_image[r][c] = SE => HasNeighbour(filt_image, r, c)

\* C6 witness: the filter removed a pixel of the image and kept another.
C6_Witness ==
    /\ ipc = "filtered" /\ filt_image # image
    /\ \E r \in DOMAIN filt_image : \E c \in DOMAIN filt_image[r] : filt_image[r][c] = SE

AllBackground(img) == \A r \in DOMAIN img : \A c \in DOMAIN img[r] : img[r][c] = 0

\* C7: the constructor sets chi_square to exactly 64.0 whenever no cluster is
\* accepted and computes the width score only when one is; an all-background
\* image has no point, raises nothing and gets 64.0.
C7_PenaltyIffNoneAccepted ==
    /\ ipc = "done" =>
          /\ good_SE_clusters = <<>> => chi_square = [kind |-> "penalty", value |-> 64]
          /\ good_SE_clusters # <<>> =>
                /\ chi_square.kind = "width_score"
                /\ chi_square.count = Len(good_SE_clusters)
                /\ Len(chi_square.widths) = Len(good_SE_clusters)
    /\ AllBackground(image) =>
          /\ error = "none" /\ ipc # "raised"
          /\ ipc \in {"points", "clustered", "done"} => NPoints = 0
          /\ ipc \in {"clustered", "done"} => good_SE_clusters = <<>>

\* C7 witness: the constructor finished with clusters, none of them accepted,
\* and chi_square = 64.0.
C7_Witness ==
    /\ ipc = "done" /\ Len(SE_clust_dim[3]) >= 1 /\ good_SE_clusters = <<>>
    /\ chi_square = [kind |-> "penalty", value |-> 64]

\* C8: when the clustering call fails, no point gives no cluster, and
\* otherwise all points form one cluster with id 0 whose size is the number
\* of points, and find_clusters completes.
C8_FallbackSingleCluster ==
    clustering_failed =>
        IF NPoints = 0
           THEN ipc \in {"clustered", "done"} /\ SE_clust_dim[3] = <<>>
           ELSE /\ error = "none"
                /\ ipc \in {"clustered", "done"}
                /\ ClusterIds = {0}
                /\ SE_clust_dim[3] = <<NPoints>>

\* the squared bounding-box diagonal of the points of one cluster id
Extent2(id) ==
    LET cs == {SE_points[i][2] : i \in PointsOf(id)}
        rs == {SE_points[i][1] : i \in PointsOf(id)}
    IN (SetMax(cs) - SetMin(cs)) * (SetMax(cs) - SetMin(cs))
         + (SetMax(rs) - SetMin(rs)) * (SetMax(rs) - SetMin(rs))

\* C10: the filtered point set never has exactly 1 point, and when the
\* clustering succeeds every cluster has at least 2 points and a non-zero
\* bounding-box extent, so size / length never divides by zero.
C10_NoSinglePointCluster ==
    /\ ipc \notin {"start", "filtered"} => NPoints # 1
    /\ ClusteredOk =>
          \A id \in ClusterIds : Cardinality(PointsOf(id)) >= 2 /\ Extent2(id) > 0

\* C10 witness: the filter removed a lone pixel and the clustering of the
\* remaining points succeeded.
C10_Witness ==
    /\ ClusteredOk /\ filt_image # image /\ ClusterIds # {} /\ NPoints < Rows * Cols

====
